---- MODULE Spec2Model ----
(***************************************************************************)
(* astro-snapshot: the integration returned by snapshot(config).           *)
(*                                                                         *)
(* The model covers the closure state of snapshot() (pages, defaults,      *)
(* port), the pure resolver resolveScreenshotConfig, and the asynchronous  *)
(* handler handleBuildDone, one action per await point.  Every call to an  *)
(* external collaborator (astro preview, puppeteer, node:fs) either        *)
(* resolves or rejects.                                                    *)
(*                                                                         *)
(* rootDir (set by handleConfigDone) is a fixed directory: an output path   *)
(* stands for its resolution against rootDir, so relative(rootDir,         *)
(* resolve(rootDir, outputPath)) is the output path itself.                *)
(*                                                                         *)
(* JavaScript objects are functions from their own keys to values: a key   *)
(* that is not set is not in the DOMAIN.  Paths and routes are sequences   *)
(* of one-character strings.                                               *)
(***************************************************************************)
EXTENDS Integers, Sequences, FiniteSets, TLC

VARIABLES
    pages,       \* config.pages: its [route, value] properties in insertion order
    defaults,    \* { ...config.defaults }
    pc,          \* position of handleBuildDone
    i,           \* index of the current entry of pageEntries
    j,           \* index of the current element of screenshotConfigs
    cap,         \* number of captures begun so far (iterations of the inner loop)
    resolved,    \* locals destructured from resolveScreenshotConfig(...)
    page,        \* the tab handle held by the local `page` (0: none)
    tabsOpened,  \* number of tabs the browser has handed out
    openTabs,    \* tab handles that are open
    server,      \* previewServer: "none", "running", "stopped"
    browser,     \* browser: "none", "running", "closed"
    calls,       \* history of collaborator calls and log entries, in order
    files,       \* paths of the image files written
    thrown,      \* error pending in the try block ("none" if none)
    result,      \* "running", "returned", "threw"
    error        \* error the handler rejected with ("none" if none)

vars == <<pages, defaults, pc, i, j, cap, resolved, page, tabsOpened,
          openTabs, server, browser, calls, files, thrown, result, error>>

-----------------------------------------------------------------------------
(* Bounds and input data *)

\* Largest number of elements of a route's array of capture specifications.
MaxSpecs == 2

\* const port = config.port ?? 4322, with config.port unset
Port == 4322

\* An object with no own keys; also what spreading `undefined` contributes.
EmptyObj == <<>>

Str_png == <<"p", "n", "g">>
Str_jpg == <<"j", "p", "g">>
Str_jpeg == <<"j", "p", "e", "g">>
Str_webp == <<"w", "e", "b", "p">>
Str_gif == <<"g", "i", "f">>

PathAPng == <<"o", "u", "t", "/", "a", ".">> \o Str_png
PathBJpg == <<"b", ".">> \o Str_jpg
PathCJpeg == <<"c", ".">> \o Str_jpeg
PathDWebp == <<"d", ".", "x", ".">> \o Str_webp
PathEGif == <<"e", ".">> \o Str_gif
PathNoExt == <<"o", "u", "t", "/", "f">>

RouteRoot == <<"/">>
RouteAbout == <<"a", "b", "o", "u", "t">>
Route404 == <<"4", "0", "4">>
Route7 == <<"7">>
RouteKeys == {RouteRoot, RouteAbout, Route404, Route7}
\* The pairs of keys of the two-route mappings, each taken in both orders.
RoutePairs == {{RouteRoot, RouteAbout}, {RouteAbout, Route404}, {Route404, Route7}}

-----------------------------------------------------------------------------
(* Object helpers *)

\* { ...a, ...b }
Spread(a, b) ==
    [k \in (DOMAIN a) \cup (DOMAIN b) |-> IF k \in DOMAIN b THEN b[k] ELSE a[k]]

\* ...obj.key where obj.key may be undefined
SpreadOf(obj, key) == IF key \in DOMAIN obj THEN obj[key] ELSE EmptyObj

\* obj.key is neither undefined nor 0
Truthy(obj, key) == key \in DOMAIN obj /\ obj[key] # 0

\* an object with the single key k when o = <<v>>, no key when o = <<>>
Field(k, o) == IF o = <<>> THEN EmptyObj ELSE [x \in {k} |-> o[1]]

-----------------------------------------------------------------------------
(* Format Resolver *)

FormatError == "throw"

LastDot(p) ==
    IF \E k \in 1..Len(p) : p[k] = "."
    THEN CHOOSE k \in 1..Len(p) :
            p[k] = "." /\ \A m \in (k + 1)..Len(p) : p[m] # "."
    ELSE 0

Extension(p) == IF LastDot(p) = 0 THEN <<>> ELSE SubSeq(p, LastDot(p) + 1, Len(p))

getFormat(outputPath) ==
    LET ext == Extension(outputPath) IN
    IF ext = Str_png THEN "png"
    ELSE IF ext = Str_jpg \/ ext = Str_jpeg THEN "jpeg"
    ELSE IF ext = Str_webp THEN "webp"
    ELSE FormatError

-----------------------------------------------------------------------------
(* Config Resolver *)

\* Variant: nullish coalescing (??) instead of ||, so 0 is kept.
resolveScreenshotConfig_nullish(pageConfig, dflt) ==
    LET outputPath == pageConfig.outputPath IN
    [ width |-> IF "width" \in DOMAIN pageConfig THEN pageConfig.width
                ELSE IF "width" \in DOMAIN dflt THEN dflt.width ELSE 1200,
      height |-> IF "height" \in DOMAIN pageConfig THEN pageConfig.height
                 ELSE IF "height" \in DOMAIN dflt THEN dflt.height ELSE 630,
      goToOptions |->
          Spread(Spread([waitUntil |-> "networkidle2"],
                        SpreadOf(dflt, "gotoOptions")),
                 SpreadOf(pageConfig, "gotoOptions")),
      outputPath |-> outputPath,
      screenshotOptions |->
          Spread(Spread([path |-> outputPath,
                         type |-> getFormat(outputPath),
                         fullPage |-> FALSE],
                        SpreadOf(dflt, "screenshotOptions")),
                 SpreadOf(pageConfig, "screenshotOptions")) ]

\* Variant: the two spreads in the wrong order, so defaults win over the page.
resolveScreenshotConfig_defaultsLast(pageConfig, dflt) ==
    LET outputPath == pageConfig.outputPath IN
    [ width |-> IF Truthy(pageConfig, "width") THEN pageConfig.width
                ELSE IF Truthy(dflt, "width") THEN dflt.width ELSE 1200,
      height |-> IF Truthy(pageConfig, "height") THEN pageConfig.height
                 ELSE IF Truthy(dflt, "height") THEN dflt.height ELSE 630,
      goToOptions |->
          Spread(Spread([waitUntil |-> "networkidle2"],
                        SpreadOf(pageConfig, "gotoOptions")),
                 SpreadOf(dflt, "gotoOptions")),
      outputPath |-> outputPath,
      screenshotOptions |->
          Spread(Spread([path |-> outputPath,
                         type |-> getFormat(outputPath),
                         fullPage |-> FALSE],
                        SpreadOf(pageConfig, "screenshotOptions")),
                 SpreadOf(dflt, "screenshotOptions")) ]

\* resolveScreenshotConfig, with the closure constant `defaults` as dflt.
\* The call throws when getFormat throws (see ResolveThrows).
resolveScreenshotConfig(pageConfig, dflt) ==
    LET outputPath == pageConfig.outputPath IN
    [ width |-> IF Truthy(pageConfig, "width") THEN pageConfig.width
                ELSE IF Truthy(dflt, "width") THEN dflt.width ELSE 1200,
      height |-> IF Truthy(pageConfig, "height") THEN pageConfig.height
                 ELSE IF Truthy(dflt, "height") THEN dflt.height ELSE 630,
      goToOptions |->
          Spread(Spread([waitUntil |-> "networkidle2"],
                        SpreadOf(dflt, "gotoOptions")),
                 SpreadOf(pageConfig, "gotoOptions")),
      outputPath |-> outputPath,
      screenshotOptions |->
          Spread(Spread([path |-> outputPath,
                         type |-> getFormat(outputPath),
                         fullPage |-> FALSE],
                        SpreadOf(dflt, "screenshotOptions")),
                 SpreadOf(pageConfig, "screenshotOptions")) ]

\* getFormat(outputPath) throws while the object literal is being built.
ResolveThrows(pageConfig) == getFormat(pageConfig.outputPath) = FormatError

-----------------------------------------------------------------------------
(* Configurations the plugin is constructed with *)

SpecGoodA == [outputPath |-> PathAPng, width |-> 0]
SpecGoodB == [outputPath |-> PathBJpg, height |-> 800]
SpecBadExt == [outputPath |-> PathEGif]
HandlerSpecs == {SpecGoodA, SpecGoodB, SpecBadExt}

DefaultsExample == [width |-> 1920, gotoOptions |-> [timeout |-> 5000]]
HandlerDefaults == {DefaultsExample}

RECURSIVE SeqsUpTo(_, _)
SeqsUpTo(S, n) ==
    IF n = 0 THEN {<<>>}
    ELSE LET shorter == SeqsUpTo(S, n - 1) IN
         shorter \cup {Append(q, x) : q \in {r \in shorter : Len(r) = n - 1}, x \in S}

\* A route's value: an array of capture specifications, or one specification
\* that is not wrapped in an array (as in the module doc's usage example).
RouteValues ==
    {[kind |-> "array", value |-> a] : a \in SeqsUpTo(HandlerSpecs, MaxSpecs)}
    \cup {[kind |-> "object", value |-> s] : s \in HandlerSpecs}

Entry(r, v) == [route |-> r, kind |-> v.kind, value |-> v.value]

\* The pages mappings the plugin is constructed with: own keys are distinct;
\* the sequence lists the properties in the order they were inserted.
PagesConfigs ==
    {<<>>}
    \cup {<<Entry(r, v)>> : r \in RouteKeys, v \in RouteValues}
    \cup {e \in {<<Entry(r1, v1), Entry(r2, v2)>> :
                      r1 \in RouteKeys, r2 \in RouteKeys,
                      v1 \in RouteValues, v2 \in RouteValues} :
             {e[1].route, e[2].route} \in RoutePairs}

Optional(S) == {<<>>} \cup {<<x>> : x \in S}

WideGoto == {EmptyObj, [timeout |-> 5000], [waitUntil |-> "load", timeout |-> 100]}
WideShot == {EmptyObj, [fullPage |-> TRUE, quality |-> 80],
             [type |-> "webp", path |-> PathDWebp]}

WideSpecs ==
    {Spread(Spread(Spread(Spread([outputPath |-> p], Field("width", w)),
                          Field("height", h)),
                   Field("gotoOptions", g)),
            Field("screenshotOptions", s)) :
        p \in {PathAPng, PathBJpg, PathCJpeg, PathDWebp, PathEGif, PathNoExt},
        w \in Optional({0, 800}), h \in Optional({0, 800}),
        g \in Optional(WideGoto), s \in Optional(WideShot)}

WideDefaults ==
    {Spread(Spread(Spread(Field("width", w), Field("height", h)),
                   Field("gotoOptions", g)),
            Field("screenshotOptions", s)) :
        w \in Optional({0, 1920}), h \in Optional({0, 1080}),
        g \in Optional({EmptyObj, [timeout |-> 5000], [waitUntil |-> "domcontentloaded"]}),
        s \in Optional({[fullPage |-> TRUE], [type |-> "jpeg", quality |-> 50]})}

-----------------------------------------------------------------------------
(* handleBuildDone *)

\* Property keys that are canonical array indices ("0", "7", "404"; not "07",
\* "/404" or "about"): own-property enumeration lists these first, in
\* ascending numeric order, and then the other string keys in insertion order.
DigitChars == <<"0", "1", "2", "3", "4", "5", "6", "7", "8", "9">>
IsDigit(c) == \E d \in 1..10 : DigitChars[d] = c
DigitValue(c) == (CHOOSE d \in 1..10 : DigitChars[d] = c) - 1

\* a < b as numbers, for digit strings without leading zeros.
IndexLess(a, b) ==
    \/ Len(a) < Len(b)
    \/ /\ Len(a) = Len(b)
       /\ \E n \in 1..Len(a) :
             /\ DigitValue(a[n]) < DigitValue(b[n])
             /\ \A m \in 1..(n - 1) : a[m] = b[m]

\* 2^32 - 2, the largest array index
MaxArrayIndex == <<"4", "2", "9", "4", "9", "6", "7", "2", "9", "4">>

IsArrayIndex(key) ==
    /\ Len(key) >= 1
    /\ \A n \in 1..Len(key) : IsDigit(key[n])
    /\ Len(key) = 1 \/ key[1] # "0"
    /\ key = MaxArrayIndex \/ IndexLess(key, MaxArrayIndex)

RECURSIVE AscendingByIndex(_, _)
AscendingByIndex(obj, S) ==
    IF S = {} THEN <<>>
    ELSE LET n == CHOOSE n \in S :
                     \A m \in S \ {n} : IndexLess(obj[n].route, obj[m].route)
         IN <<obj[n]>> \o AscendingByIndex(obj, S \ {n})

NotIndexKeyed(e) == ~IsArrayIndex(e.route)

\* Object.entries(obj)
ObjectEntries(obj) ==
    AscendingByIndex(obj, {n \in 1..Len(obj) : IsArrayIndex(obj[n].route)})
    \o SelectSeq(obj, NotIndexKeyed)

\* Variant: the entries in plain insertion order.
pageEntries_insertionOrder == pages

\* const pageEntries = Object.entries(pages)
pageEntries == ObjectEntries(pages)

NoConfig == <<>>

InitWith(entries, dflt, start) ==
    /\ pages = entries
    /\ defaults = dflt
    /\ pc = start
    /\ i = 1
    /\ j = 1
    /\ cap = 0
    /\ resolved = NoConfig
    /\ page = 0
    /\ tabsOpened = 0
    /\ openTabs = {}
    /\ server = "none"
    /\ browser = "none"
    /\ calls = <<>>
    /\ files = {}
    /\ thrown = "none"
    /\ result = "running"
    /\ error = "none"

Init == \E entries \in PagesConfigs, dflt \in HandlerDefaults :
            InitWith(entries, dflt, "start")

\* pagePath.startsWith('/') ? pagePath : `/${pagePath}`
normalizedPagePath(pagePath) ==
    IF Len(pagePath) > 0 /\ pagePath[1] = "/" THEN pagePath ELSE <<"/">> \o pagePath

\* `http://localhost:${port}${normalizedPagePath}`
pageUrl(pagePath) == [host |-> "localhost", port |-> Port,
                      path |-> normalizedPagePath(pagePath)]

\* One entry of the history: a collaborator call or a log entry, with the
\* loop variables (entry index, pagePath, array index) it was made under.
Ev(op, c, tab, ok, arg) ==
    [op |-> op, cap |-> c, route |-> i,
     pagePath |-> IF i \in 1..Len(pageEntries) THEN pageEntries[i].route ELSE <<>>,
     spec |-> j, tab |-> tab, ok |-> ok, arg |-> arg]

\* An awaited call at position `at` rejects: control leaves the try block
\* with the error pending and enters the finally block.
Throws(at, arg) ==
    /\ pc = at
    /\ calls' = Append(calls, Ev(at, cap, page, FALSE, arg))
    /\ thrown' = at
    /\ pc' = "browserClose"
    /\ UNCHANGED <<pages, defaults, i, j, cap, resolved, page, tabsOpened,
                   openTabs, server, browser, files, result, error>>

\* if (pageEntries.length === 0) { logger.debug(...); return; }
SkipNoPages ==
    /\ pc = "start"
    /\ Len(pageEntries) = 0
    /\ calls' = Append(calls, Ev("debug", 0, 0, TRUE, EmptyObj))
    /\ result' = "returned"
    /\ pc' = "done"
    /\ UNCHANGED <<pages, defaults, i, j, cap, resolved, page, tabsOpened,
                   openTabs, server, browser, files, thrown, error>>

\* Variant: no early return, the server is started for an empty mapping too.
PreviewOk_noGuard ==
    /\ pc = "start"
    /\ calls' = Append(calls, Ev("preview", 0, 0, TRUE, [port |-> Port]))
    /\ server' = "running"
    /\ pc' = "launch"
    /\ UNCHANGED <<pages, defaults, i, j, cap, resolved, page, tabsOpened,
                   openTabs, browser, files, thrown, result, error>>

\* const previewServer = await preview({ root: rootDir, server: { port } })
PreviewOk ==
    /\ pc = "start"
    /\ Len(pageEntries) # 0
    /\ calls' = Append(calls, Ev("preview", 0, 0, TRUE, [port |-> Port]))
    /\ server' = "running"
    /\ pc' = "launch"
    /\ UNCHANGED <<pages, defaults, i, j, cap, resolved, page, tabsOpened,
                   openTabs, browser, files, thrown, result, error>>

\* preview() rejects: outside the try block, the handler rejects at once.
PreviewFail ==
    /\ pc = "start"
    /\ Len(pageEntries) # 0
    /\ calls' = Append(calls, Ev("preview", 0, 0, FALSE, [port |-> Port]))
    /\ result' = "threw"
    /\ error' = "preview"
    /\ pc' = "done"
    /\ UNCHANGED <<pages, defaults, i, j, cap, resolved, page, tabsOpened,
                   openTabs, server, browser, files, thrown>>

\* const browser = await launch(launchOptions)
LaunchOk ==
    /\ pc = "launch"
    /\ calls' = Append(calls, Ev("launch", 0, 0, TRUE, [headless |-> TRUE]))
    /\ browser' = "running"
    /\ i' = 1
    /\ pc' = "route"
    /\ UNCHANGED <<pages, defaults, j, cap, resolved, page, tabsOpened,
                   openTabs, server, files, thrown, result, error>>

\* launch() rejects: outside the try block, the handler rejects at once.
LaunchFail ==
    /\ pc = "launch"
    /\ calls' = Append(calls, Ev("launch", 0, 0, FALSE, [headless |-> TRUE]))
    /\ result' = "threw"
    /\ error' = "launch"
    /\ pc' = "done"
    /\ UNCHANGED <<pages, defaults, i, j, cap, resolved, page, tabsOpened,
                   openTabs, server, browser, files, thrown>>

\* The current element of pageEntries and of its screenshotConfigs.
CurEntry == pageEntries[i]
CurSpec == CurEntry.value[j]

\* dirname(p): the part before the last "/", or "." when there is none.
dirname(p) ==
    IF \E k \in 1..Len(p) : p[k] = "/"
    THEN LET k == CHOOSE k \in 1..Len(p) :
                     p[k] = "/" /\ \A m \in (k + 1)..Len(p) : p[m] # "/"
         IN IF k = 1 THEN <<"/">> ELSE SubSeq(p, 1, k - 1)
    ELSE <<".">>

\* for (const [pagePath, screenshotConfigs] of pageEntries): no entry is left,
\* the try block completes and control enters the finally block.
LoopDone ==
    /\ pc = "route"
    /\ i > Len(pageEntries)
    /\ pc' = "browserClose"
    /\ UNCHANGED <<pages, defaults, i, j, cap, resolved, page, tabsOpened,
                   openTabs, server, browser, calls, files, thrown, result, error>>

\* for (const screenshotConfig of screenshotConfigs) on a value that is a
\* plain object: it has no Symbol.iterator, the statement throws a TypeError.
NotIterable ==
    /\ pc = "route"
    /\ i <= Len(pageEntries)
    /\ CurEntry.kind # "array"
    /\ thrown' = "notIterable"
    /\ pc' = "browserClose"
    /\ UNCHANGED <<pages, defaults, i, j, cap, resolved, page, tabsOpened,
                   openTabs, server, browser, calls, files, result, error>>

\* for (const screenshotConfig of screenshotConfigs) on an array.
EnterRoute ==
    /\ pc = "route"
    /\ i <= Len(pageEntries)
    /\ CurEntry.kind = "array"
    /\ j' = 1
    /\ pc' = "spec"
    /\ UNCHANGED <<pages, defaults, i, cap, resolved, page, tabsOpened,
                   openTabs, server, browser, calls, files, thrown, result, error>>

\* The inner loop is exhausted: on to the next entry.
RouteDone ==
    /\ pc = "spec"
    /\ j > Len(CurEntry.value)
    /\ i' = i + 1
    /\ pc' = "route"
    /\ UNCHANGED <<pages, defaults, j, cap, resolved, page, tabsOpened,
                   openTabs, server, browser, calls, files, thrown, result, error>>

\* const { width, ... } = resolveScreenshotConfig(screenshotConfig)
ResolveOk ==
    /\ pc = "spec"
    /\ j <= Len(CurEntry.value)
    /\ ~ResolveThrows(CurSpec)
    /\ resolved' = resolveScreenshotConfig(CurSpec, defaults)
    /\ calls' = Append(calls, Ev("resolve", cap + 1, 0, TRUE, CurSpec))
    /\ cap' = cap + 1
    /\ pc' = "mkdir"
    /\ UNCHANGED <<pages, defaults, i, j, page, tabsOpened, openTabs, server,
                   browser, files, thrown, result, error>>

\* Variant: the tab is opened before the configuration is resolved.
ResolveFail_afterNewPage ==
    /\ pc = "spec"
    /\ j <= Len(CurEntry.value)
    /\ ResolveThrows(CurSpec)
    /\ tabsOpened' = tabsOpened + 1
    /\ page' = tabsOpened + 1
    /\ openTabs' = openTabs \cup {tabsOpened + 1}
    /\ calls' = calls \o <<Ev("newPage", cap + 1, tabsOpened + 1, TRUE, EmptyObj),
                           Ev("resolve", cap + 1, tabsOpened + 1, FALSE, CurSpec)>>
    /\ cap' = cap + 1
    /\ thrown' = "format"
    /\ pc' = "browserClose"
    /\ UNCHANGED <<pages, defaults, i, j, resolved, server, browser, files,
                   result, error>>

\* resolveScreenshotConfig throws (getFormat): the error leaves the try block.
ResolveFail ==
    /\ pc = "spec"
    /\ j <= Len(CurEntry.value)
    /\ ResolveThrows(CurSpec)
    /\ calls' = Append(calls, Ev("resolve", cap + 1, 0, FALSE, CurSpec))
    /\ cap' = cap + 1
    /\ thrown' = "format"
    /\ pc' = "browserClose"
    /\ UNCHANGED <<pages, defaults, i, j, resolved, page, tabsOpened, openTabs,
                   server, browser, files, result, error>>

\* await mkdir(dirname(absoluteOutputPath), { recursive: true })
MkdirOk ==
    /\ pc = "mkdir"
    /\ calls' = Append(calls, Ev("mkdir", cap, 0, TRUE, dirname(resolved.outputPath)))
    /\ pc' = "newPage"
    /\ UNCHANGED <<pages, defaults, i, j, cap, resolved, page, tabsOpened,
                   openTabs, server, browser, files, thrown, result, error>>

MkdirFail == Throws("mkdir", dirname(resolved.outputPath))

\* const page = await browser.newPage()
NewPageOk ==
    /\ pc = "newPage"
    /\ tabsOpened' = tabsOpened + 1
    /\ page' = tabsOpened + 1
    /\ openTabs' = openTabs \cup {tabsOpened + 1}
    /\ calls' = Append(calls, Ev("newPage", cap, tabsOpened + 1, TRUE, EmptyObj))
    /\ pc' = "setViewport"
    /\ UNCHANGED <<pages, defaults, i, j, cap, resolved, server, browser,
                   files, thrown, result, error>>

NewPageFail == Throws("newPage", EmptyObj)

\* await page.setViewport({ width, height })
SetViewportOk ==
    /\ pc = "setViewport"
    /\ calls' = Append(calls, Ev("setViewport", cap, page, TRUE,
                                 [width |-> resolved.width, height |-> resolved.height]))
    /\ pc' = "goto"
    /\ UNCHANGED <<pages, defaults, i, j, cap, resolved, page, tabsOpened,
                   openTabs, server, browser, files, thrown, result, error>>

SetViewportFail ==
    Throws("setViewport", [width |-> resolved.width, height |-> resolved.height])

\* await page.goto(pageUrl, goToOptions)
GotoOk ==
    /\ pc = "goto"
    /\ calls' = Append(calls, Ev("goto", cap, page, TRUE,
                                 [url |-> pageUrl(CurEntry.route),
                                  options |-> resolved.goToOptions]))
    /\ pc' = "screenshot"
    /\ UNCHANGED <<pages, defaults, i, j, cap, resolved, page, tabsOpened,
                   openTabs, server, browser, files, thrown, result, error>>

GotoFail ==
    Throws("goto", [url |-> pageUrl(CurEntry.route), options |-> resolved.goToOptions])

\* await page.screenshot(screenshotOptions): the call writes the file at
\* screenshotOptions.path.
ScreenshotOk ==
    /\ pc = "screenshot"
    /\ calls' = Append(calls, Ev("screenshot", cap, page, TRUE, resolved.screenshotOptions))
    /\ files' = files \cup {resolved.screenshotOptions.path}
    /\ pc' = "pageClose"
    /\ UNCHANGED <<pages, defaults, i, j, cap, resolved, page, tabsOpened,
                   openTabs, server, browser, thrown, result, error>>

ScreenshotFail == Throws("screenshot", resolved.screenshotOptions)

\* Variant: the tab is not closed after the screenshot.
PageCloseOk_leak ==
    /\ pc = "pageClose"
    /\ calls' = calls \o
          <<Ev("info", cap, 0, TRUE,
               [route |-> normalizedPagePath(CurEntry.route),
                path |-> resolved.outputPath])>>
    /\ j' = j + 1
    /\ pc' = "spec"
    /\ UNCHANGED <<pages, defaults, i, cap, resolved, page, tabsOpened,
                   openTabs, server, browser, files, thrown, result, error>>

\* await page.close(); logger.info(...); then the next iteration.
PageCloseOk ==
    /\ pc = "pageClose"
    /\ openTabs' = openTabs \ {page}
    /\ calls' = calls \o
          <<Ev("pageClose", cap, page, TRUE, EmptyObj),
            Ev("info", cap, 0, TRUE,
               [route |-> normalizedPagePath(CurEntry.route),
                path |-> resolved.outputPath])>>
    /\ j' = j + 1
    /\ pc' = "spec"
    /\ UNCHANGED <<pages, defaults, i, cap, resolved, page, tabsOpened,
                   server, browser, files, thrown, result, error>>

PageCloseFail == Throws("pageClose", EmptyObj)

\* finally { await browser.close(); ...
BrowserCloseOk ==
    /\ pc = "browserClose"
    /\ calls' = Append(calls, Ev("browserClose", cap, 0, TRUE, EmptyObj))
    /\ browser' = "closed"
    /\ openTabs' = {}
    /\ pc' = "serverStop"
    /\ UNCHANGED <<pages, defaults, i, j, cap, resolved, page, tabsOpened,
                   server, files, thrown, result, error>>

\* browser.close() rejects: the finally block is left at once, and its error
\* replaces the one pending from the try block.
BrowserCloseFail ==
    /\ pc = "browserClose"
    /\ calls' = Append(calls, Ev("browserClose", cap, 0, FALSE, EmptyObj))
    /\ result' = "threw"
    /\ error' = "browserClose"
    /\ pc' = "done"
    /\ UNCHANGED <<pages, defaults, i, j, cap, resolved, page, tabsOpened,
                   openTabs, server, browser, files, thrown>>

\* ... await previewServer.stop(); } then the pending error, if any, is rethrown.
ServerStopOk ==
    /\ pc = "serverStop"
    /\ calls' = Append(calls, Ev("serverStop", cap, 0, TRUE, EmptyObj))
    /\ server' = "stopped"
    /\ result' = IF thrown = "none" THEN "returned" ELSE "threw"
    /\ error' = thrown
    /\ pc' = "done"
    /\ UNCHANGED <<pages, defaults, i, j, cap, resolved, page, tabsOpened,
                   openTabs, browser, files, thrown>>

ServerStopFail ==
    /\ pc = "serverStop"
    /\ calls' = Append(calls, Ev("serverStop", cap, 0, FALSE, EmptyObj))
    /\ result' = "threw"
    /\ error' = "serverStop"
    /\ pc' = "done"
    /\ UNCHANGED <<pages, defaults, i, j, cap, resolved, page, tabsOpened,
                   openTabs, server, browser, files, thrown>>

Next ==
    \/ SkipNoPages
    \/ PreviewOk
    \/ PreviewFail
    \/ LaunchOk
    \/ LaunchFail
    \/ LoopDone
    \/ NotIterable
    \/ EnterRoute
    \/ RouteDone
    \/ ResolveOk
    \/ ResolveFail
    \/ MkdirOk
    \/ MkdirFail
    \/ NewPageOk
    \/ NewPageFail
    \/ SetViewportOk
    \/ SetViewportFail
    \/ GotoOk
    \/ GotoFail
    \/ ScreenshotOk
    \/ ScreenshotFail
    \/ PageCloseOk
    \/ PageCloseFail
    \/ BrowserCloseOk
    \/ BrowserCloseFail
    \/ ServerStopOk
    \/ ServerStopFail

Spec == Init /\ [][Next]_vars

-----------------------------------------------------------------------------
(* The Config Resolver on its own, over a wide range of inputs *)

InitResolve == \E s \in WideSpecs, dflt \in WideDefaults :
    InitWith(<<[route |-> RouteRoot, kind |-> "array", value |-> <<s>>]>>,
             dflt, "resolver")

ResolverReturns ==
    /\ pc = "resolver"
    /\ ~ResolveThrows(CurSpec)
    /\ resolved' = resolveScreenshotConfig(CurSpec, defaults)
    /\ pc' = "resolved"
    /\ UNCHANGED <<pages, defaults, i, j, cap, page, tabsOpened, openTabs,
                   server, browser, calls, files, thrown, result, error>>

ResolverThrows ==
    /\ pc = "resolver"
    /\ ResolveThrows(CurSpec)
    /\ thrown' = "format"
    /\ pc' = "resolverThrew"
    /\ UNCHANGED <<pages, defaults, i, j, cap, resolved, page, tabsOpened,
                   openTabs, server, browser, calls, files, result, error>>

NextResolve == ResolverReturns \/ ResolverThrows

SpecResolve == InitResolve /\ [][NextResolve]_vars

-----------------------------------------------------------------------------
(* Reading the history *)

Idx(op) == {n \in 1..Len(calls) : calls[n].op = op}
IdxOk(op) == {n \in Idx(op) : calls[n].ok}
Count(op) == Cardinality(Idx(op))

CaptureOps == <<"resolve", "mkdir", "newPage", "setViewport", "goto",
                "screenshot", "pageClose", "info">>
Rank(op) == CHOOSE r \in 1..Len(CaptureOps) : CaptureOps[r] = op
IsCaptureOp(op) == \E r \in 1..Len(CaptureOps) : CaptureOps[r] = op
CaptureIdx == {n \in 1..Len(calls) : IsCaptureOp(calls[n].op)}

\* The errors a step of a capture can raise.
CaptureErrors == {"format", "mkdir", "newPage", "setViewport", "goto",
                  "screenshot", "pageClose"}

\* The route key and array index of the capture an entry of the history
\* belongs to.
KeyOf(n) == calls[n].pagePath

\* The captures of a sequence of [route, value] properties, taken in that
\* sequence's order and, within a route, in array order.
RECURSIVE CaptureOrder(_, _)
CaptureOrder(seq, n) ==
    IF n = 0 THEN <<>>
    ELSE CaptureOrder(seq, n - 1) \o
         (IF seq[n].kind = "array"
          THEN [k \in 1..Len(seq[n].value) |-> <<seq[n].route, k>>]
          ELSE <<>>)

\* One capture at a time, the steps of a capture in their fixed order with
\* none skipped, and each capture after the previous capture's info log.
StepsInOrder ==
    /\ \A n \in CaptureIdx :
          /\ Rank(calls[n].op) > 1 =>
                \E m \in 1..(n - 1) :
                    /\ calls[m].cap = calls[n].cap
                    /\ calls[m].ok
                    /\ Rank(calls[m].op) = Rank(calls[n].op) - 1
          /\ calls[n].cap > 1 =>
                \E m \in 1..(n - 1) :
                    calls[m].op = "info" /\ calls[m].cap = calls[n].cap - 1
    /\ \A m \in CaptureIdx, n \in CaptureIdx :
          m < n =>
             /\ calls[m].cap <= calls[n].cap
             /\ calls[m].cap = calls[n].cap => Rank(calls[m].op) < Rank(calls[n].op)

\* Route key a is enumerated before route key b: an array-index key before
\* any other key, two array-index keys by ascending number, two other keys
\* by insertion.
Position(key) == CHOOSE n \in 1..Len(pages) : pages[n].route = key
EnumeratedBefore(a, b) ==
    IF IsArrayIndex(a)
    THEN ~IsArrayIndex(b) \/ IndexLess(a, b)
    ELSE ~IsArrayIndex(b) /\ Position(a) < Position(b)

-----------------------------------------------------------------------------
(* C1 *)

\* C1: whenever the build-done handler has ended, normally or with an error
\* raised by any step, no preview server it started is still running and no
\* browser it launched is still open.
C1_AllReleasedAtEnd ==
    pc = "done" => (server # "running" /\ browser # "running")

-----------------------------------------------------------------------------
(* C2 *)

\* C2: with an empty pages mapping the handler starts no preview server,
\* launches no browser, opens no tab, emits no info entry, and ends by
\* returning normally after exactly one debug entry.
C2_EmptyPagesSkip ==
    Len(pages) = 0 =>
        /\ server = "none" /\ browser = "none" /\ tabsOpened = 0
        /\ Count("preview") = 0 /\ Count("launch") = 0 /\ Count("newPage") = 0
        /\ Count("info") = 0
        /\ Count("debug") <= 1
        /\ pc = "done" =>
              (Count("debug") = 1 /\ result = "returned" /\ error = "none")

C2_Witness ==
    Len(pages) = 0 /\ pc = "done" /\ result = "returned" /\ Count("debug") = 1

-----------------------------------------------------------------------------
(* C3 *)

\* C3: if a step of the k-th capture fails, then once the handler has ended
\* no later capture was attempted, the files of captures 1..k-1 are written,
\* exactly k-1 info entries were emitted, and the handler ended with that
\* error with the browser closed and the server stopped.
C3_AbortOnFirstFailure ==
    (pc = "done" /\ thrown \in CaptureErrors) =>
        /\ \A n \in CaptureIdx : calls[n].cap <= cap
        /\ \A c \in 1..(cap - 1) :
              \E n \in IdxOk("screenshot") :
                  calls[n].cap = c /\ calls[n].arg.path \in files
        /\ Count("info") = cap - 1
        /\ result = "threw" /\ error = thrown
        /\ browser = "closed" /\ server = "stopped"

\* The part of C3 that does not depend on the teardown calls.
C3_LoopPart ==
    thrown \in CaptureErrors =>
        /\ \A n \in CaptureIdx : calls[n].cap <= cap
        /\ \A c \in 1..(cap - 1) :
              \E n \in IdxOk("screenshot") :
                  calls[n].cap = c /\ calls[n].arg.path \in files
        /\ Count("info") = cap - 1
        /\ pc \in {"browserClose", "serverStop", "done"}

-----------------------------------------------------------------------------
(* C4 *)

\* C4 as stated: captures run one at a time in the order of the
\* configuration (routes in the insertion order of the pages mapping,
\* specifications in array order); within a capture the steps come in the
\* order resolve, mkdir, tab open, set viewport, navigate, screenshot, tab
\* close, info log; and no step of a capture comes before the info log of
\* the previous capture.
C4_InsertionOrder ==
    /\ StepsInOrder
    /\ \A n \in CaptureIdx :
          /\ calls[n].cap \in 1..Len(CaptureOrder(pages, Len(pages)))
          /\ <<KeyOf(n), calls[n].spec>> = CaptureOrder(pages, Len(pages))[calls[n].cap]

\* C4 amended: as C4, with the routes taken in the order in which the pages
\* mapping enumerates its keys: keys that are canonical array indices first,
\* in ascending numeric order, then the other keys in insertion order.  A
\* capture is begun only when every capture before it in that order has
\* emitted its info log.
C4_EnumerationOrder ==
    LET DoneBefore(r, k, n) ==
            \E m \in 1..(n - 1) :
                calls[m].op = "info" /\ KeyOf(m) = r /\ calls[m].spec = k
    IN
    /\ StepsInOrder
    /\ \A n \in CaptureIdx :
          \E m \in Idx("resolve") :
              /\ calls[m].cap = calls[n].cap
              /\ KeyOf(m) = KeyOf(n)
              /\ calls[m].spec = calls[n].spec
    /\ \A n \in Idx("resolve") :
          LET b == KeyOf(n)
              e == pages[Position(b)]
          IN
          /\ e.kind = "array"
          /\ calls[n].spec \in 1..Len(e.value)
          /\ \A k \in 1..(calls[n].spec - 1) : DoneBefore(b, k, n)
          /\ \A p \in 1..Len(pages) :
                EnumeratedBefore(pages[p].route, b) =>
                   /\ pages[p].kind = "array"
                   /\ \A k \in 1..Len(pages[p].value) :
                         DoneBefore(pages[p].route, k, n)
    /\ \A m \in Idx("resolve"), n \in Idx("resolve") :
          m < n =>
             /\ calls[m].cap < calls[n].cap
             /\ \/ EnumeratedBefore(KeyOf(m), KeyOf(n))
                \/ KeyOf(m) = KeyOf(n) /\ calls[m].spec < calls[n].spec

C4_Witness ==
    /\ pc = "done" /\ result = "returned"
    /\ Len(pages) = 2
    /\ pages[1].route = RouteAbout /\ pages[2].route = Route404
    /\ Count("info") = 4
    /\ \E n \in Idx("info") : calls[n].cap = 1 /\ KeyOf(n) = Route404
    /\ \E n \in Idx("info") : calls[n].cap = 4 /\ KeyOf(n) = RouteAbout

-----------------------------------------------------------------------------
(* C5 *)

\* C5: the resolved width is the specification's width if that is set and not
\* 0, else the defaults' width if that is set and not 0, else 1200; likewise
\* the height with 630; so neither is 0 when the specification or the
\* defaults give 0.
C5_FalsyOverride ==
    pc = "resolved" =>
        LET s == pages[1].value[1] IN
        /\ ("width" \in DOMAIN s /\ s.width # 0) => resolved.width = s.width
        /\ (("width" \notin DOMAIN s \/ s.width = 0)
              /\ "width" \in DOMAIN defaults /\ defaults.width # 0)
             => resolved.width = defaults.width
        /\ (("width" \notin DOMAIN s \/ s.width = 0)
              /\ ("width" \notin DOMAIN defaults \/ defaults.width = 0))
             => resolved.width = 1200
        /\ ("height" \in DOMAIN s /\ s.height # 0) => resolved.height = s.height
        /\ (("height" \notin DOMAIN s \/ s.height = 0)
              /\ "height" \in DOMAIN defaults /\ defaults.height # 0)
             => resolved.height = defaults.height
        /\ (("height" \notin DOMAIN s \/ s.height = 0)
              /\ ("height" \notin DOMAIN defaults \/ defaults.height = 0))
             => resolved.height = 630
        /\ resolved.width # 0 /\ resolved.height # 0

C5_Witness ==
    /\ pc = "resolved"
    /\ "width" \in DOMAIN pages[1].value[1] /\ pages[1].value[1].width = 0
    /\ "height" \notin DOMAIN pages[1].value[1]
    /\ "width" \in DOMAIN defaults /\ defaults.width = 1920
    /\ "height" \in DOMAIN defaults /\ defaults.height = 0
    /\ resolved.width = 1920 /\ resolved.height = 630

-----------------------------------------------------------------------------
(* C6 *)

C6_ExampleSpec == [height |-> 800, outputPath |-> PathAPng]
C6_ExampleResolved ==
    [width |-> 1920, height |-> 800,
     goToOptions |-> [waitUntil |-> "networkidle2", timeout |-> 5000],
     outputPath |-> PathAPng,
     screenshotOptions |-> [path |-> PathAPng, type |-> "png", fullPage |-> FALSE]]

\* C6: key by key, the resolved navigation options and encoder options take
\* the page's value if the page sets the key, else the defaults' value if the
\* defaults set it, else the hard fallback (waitUntil networkidle2; path the
\* output path, type the format of the output path, fullPage false); a key no
\* tier sets is absent.  The worked example resolves as stated.
C6_ThreeTierMerge ==
    pc = "resolved" =>
        LET s == pages[1].value[1]
            pg == IF "gotoOptions" \in DOMAIN s THEN s.gotoOptions ELSE <<>>
            dg == IF "gotoOptions" \in DOMAIN defaults THEN defaults.gotoOptions ELSE <<>>
            ps == IF "screenshotOptions" \in DOMAIN s THEN s.screenshotOptions ELSE <<>>
            ds == IF "screenshotOptions" \in DOMAIN defaults
                  THEN defaults.screenshotOptions ELSE <<>>
            nav == resolved.goToOptions
            enc == resolved.screenshotOptions
        IN
        /\ DOMAIN nav = {"waitUntil"} \cup DOMAIN dg \cup DOMAIN pg
        /\ \A k \in DOMAIN nav :
              nav[k] = IF k \in DOMAIN pg THEN pg[k]
                       ELSE IF k \in DOMAIN dg THEN dg[k]
                       ELSE "networkidle2"
        /\ DOMAIN enc = {"path", "type", "fullPage"} \cup DOMAIN ds \cup DOMAIN ps
        /\ \A k \in DOMAIN enc :
              IF k \in DOMAIN ps THEN enc[k] = ps[k]
              ELSE IF k \in DOMAIN ds THEN enc[k] = ds[k]
              ELSE IF k = "path" THEN enc[k] = s.outputPath
              ELSE IF k = "type" THEN enc[k] = getFormat(s.outputPath)
              ELSE enc[k] = FALSE
        /\ resolved.outputPath = s.outputPath
        /\ (s = C6_ExampleSpec /\ defaults = DefaultsExample)
              => resolved = C6_ExampleResolved

C6_Witness ==
    /\ pc = "resolved"
    /\ pages[1].value[1] = C6_ExampleSpec
    /\ defaults = DefaultsExample
    /\ resolved = C6_ExampleResolved

-----------------------------------------------------------------------------
(* C7 *)

\* C7: a route whose value is one capture specification, not wrapped in an
\* array, does not make the handler fail, and is captured exactly once when
\* the handler returns.
C7_SingleSpecAccepted ==
    /\ thrown # "notIterable"
    /\ (pc = "done" /\ result = "returned") =>
          \A r \in 1..Len(pageEntries) :
              pageEntries[r].kind = "object" =>
                  Cardinality({n \in Idx("info") : calls[n].route = r}) = 1

-----------------------------------------------------------------------------
(* C8 *)

\* C8 as stated: when the Format Resolver fails on an output path, no browser
\* has been launched, no tab opened and no navigation or screenshot call made
\* in this invocation.
C8_FailsBeforeAnyBrowserUse ==
    thrown = "format" =>
        /\ Count("launch") = 0
        /\ Count("newPage") = 0
        /\ Count("goto") = 0
        /\ Count("screenshot") = 0

\* C8 amended: when the Format Resolver fails on the output path of the
\* capture the loop has reached, the browser has already been launched, but
\* for that capture no directory was created, no tab opened and no viewport,
\* navigation, screenshot or tab-close call made, and no tab is open.
C8_FailsBeforeBrowserUseOfThatCapture ==
    thrown = "format" =>
        /\ ResolveThrows(CurSpec)
        /\ IdxOk("launch") # {}
        /\ \A n \in CaptureIdx :
              calls[n].cap = cap => (calls[n].op = "resolve" /\ ~calls[n].ok)
        /\ openTabs = {}
        /\ files = {calls[n].arg.path : n \in IdxOk("screenshot")}

C8_Witness ==
    /\ thrown = "format"
    /\ pc = "browserClose"
    /\ cap = 2
    /\ Count("screenshot") = 1
    /\ browser = "running"

-----------------------------------------------------------------------------
(* C9 *)

\* C9: in every ended run that launched a browser, the browser close call and
\* the server stop call were each made exactly once, close before stop, and
\* both after the last capture step attempted.
C9_TeardownOrder ==
    (pc = "done" /\ IdxOk("launch") # {}) =>
        /\ Count("browserClose") = 1
        /\ Count("serverStop") = 1
        /\ \A b \in Idx("browserClose"), t \in Idx("serverStop") : b < t
        /\ \A n \in CaptureIdx, b \in Idx("browserClose") : n < b

-----------------------------------------------------------------------------
(* C10 *)

\* The tabs the loop itself has closed.
ClosedByLoop == {calls[n].tab : n \in IdxOk("pageClose")}

\* C10 as stated: once the loop has been left, on success or on a failed
\* step, every tab it opened has been closed by it, and none is open when
\* the browser close call is made.
C10_EveryTabClosedInItsIteration ==
    /\ Cardinality(openTabs) <= 1
    /\ pc \in {"browserClose", "serverStop", "done"} =>
          \A t \in 1..tabsOpened : t \in ClosedByLoop
    /\ pc = "browserClose" => openTabs = {}

\* C10 amended: a tab is closed by the loop in the iteration that opened it
\* when that iteration completes; when set viewport, navigate, screenshot or
\* tab close fails, the tab is not closed by the loop and is still open when
\* the browser close call is made.  At most one tab is open at any moment
\* and no tab is used by a capture other than the one that opened it.
C10_TabScopedToCompletedIteration ==
    /\ Cardinality(openTabs) <= 1
    /\ \A n \in 1..Len(calls) :
          calls[n].op \in {"newPage", "setViewport", "goto", "screenshot", "pageClose"}
             /\ (calls[n].ok \/ calls[n].op # "newPage")
          => /\ calls[n].tab \in 1..tabsOpened
             /\ \E m \in IdxOk("newPage") :
                   calls[m].tab = calls[n].tab /\ calls[m].cap = calls[n].cap
    /\ \A m \in IdxOk("newPage"), n \in IdxOk("newPage") :
          m # n => (calls[m].tab # calls[n].tab /\ calls[m].cap # calls[n].cap)
    /\ \A n \in Idx("info") :
          \E m \in IdxOk("pageClose") :
              m < n /\ calls[m].cap = calls[n].cap
    /\ pc = "browserClose" =>
          IF thrown \in {"setViewport", "goto", "screenshot", "pageClose"}
          THEN openTabs = {page} /\ page = tabsOpened /\ page \notin ClosedByLoop
          ELSE openTabs = {}
    /\ pc \in {"browserClose", "serverStop", "done"} =>
          \A t \in 1..tabsOpened :
              t \in ClosedByLoop \/
                 (t = tabsOpened /\ thrown \in {"setViewport", "goto", "screenshot", "pageClose"})

C10_Witness ==
    /\ pc = "browserClose"
    /\ thrown = "goto"
    /\ tabsOpened = 2
    /\ openTabs = {2}
    /\ 1 \in ClosedByLoop

====
